---- MODULE Spec2Model ----
(***************************************************************************)
(* Model of the DICOM upload microservice (src/src/main.py,                *)
(* src/src/utils.py): the upload handler with its content-addressed        *)
(* dedup index, the tag parser and resolver, and the pixel normaliser.     *)
(***************************************************************************)
EXTENDS Integers, Sequences, FiniteSets, TLC

VARIABLES
    uploads,        \* UPLOAD_DIR: stored file id -> content (main.py:26)
    FILE_HASH_MAP,  \* in-memory dedup index (main.py:28)
    hash_map_file,  \* uploads/hash_map.json, the durable copy (main.py:29)
    up,             \* the service process is running (module import succeeded)
    nextId,         \* supply of fresh uuid4 identifiers (main.py:74)
    pc,             \* request -> position in process_dicom
    body,           \* request -> content received by `await file.read()`
    cur,            \* locals of the handler that holds the event loop
    loop,           \* the request whose handler is running, or NoReq
    last,           \* the request completed by the latest step and its outcome, or NoLast
    firstId,        \* history: content -> identifier given to its first accepted upload
    arg,            \* input of a pure-function call
    ret             \* its result

vars == <<uploads, FILE_HASH_MAP, hash_map_file, up, nextId, pc, body, cur,
          loop, last, firstId, arg, ret>>

(***************************************************************************)
(* Bounds of the model.                                                   *)
(***************************************************************************)
NumRequests == 2
MaxIds == 2
MaxTagLen == 4
MaxGrid == 3
PixelBits == 8

(***************************************************************************)
(* Program constants.                                                     *)
(***************************************************************************)
FileMetaGroup == 2
HexBase == 16
ScaleMax == 255
HttpBadRequest == 400
HttpNotFound == 404
HttpServerError == 500

(***************************************************************************)
(* Strings are sequences of one-character strings.                         *)
(***************************************************************************)
Alphabet == {"0", "1", "2", "F", "z", ",", " "}

HexDigits == {"0", "1", "2", "F"}

DigitValue(c) ==
    CASE c = "0" -> 0
      [] c = "1" -> 1
      [] c = "2" -> 2
      [] c = "F" -> 15
      [] OTHER -> 0

RECURSIVE LStrip(_)
LStrip(s) ==
    IF s # <<>> /\ Head(s) = " " THEN LStrip(Tail(s)) ELSE s

RECURSIVE RStrip(_)
RStrip(s) ==
    IF s # <<>> /\ s[Len(s)] = " " THEN RStrip(SubSeq(s, 1, Len(s) - 1)) ELSE s

\* str.strip()
Strip(s) == RStrip(LStrip(s))

\* str.split(","): the pieces between the commas, empty pieces kept
RECURSIVE Split(_)
Split(s) ==
    IF \A i \in 1..Len(s) : s[i] # ","
    THEN <<s>>
    ELSE LET k == CHOOSE i \in 1..Len(s) :
                      s[i] = "," /\ \A j \in 1..(i - 1) : s[j] # ","
         IN  <<SubSeq(s, 1, k - 1)>> \o Split(SubSeq(s, k + 1, Len(s)))

\* int(s, 16) raises ValueError unless s is a nonempty run of hex digits
IsHex(s) == s # <<>> /\ \A i \in 1..Len(s) : s[i] \in HexDigits

RECURSIVE HexValue(_)
HexValue(s) ==
    IF s = <<>> THEN 0
    ELSE HexValue(SubSeq(s, 1, Len(s) - 1)) * HexBase + DigitValue(s[Len(s)])

TagOk(g, e) == [kind |-> "ok", group |-> g, element |-> e]
TagValueError == [kind |-> "ValueError", group |-> 0, element |-> 0]

parse_dicom_tag(tag_string) ==
    LET tag_string_cleaned == Strip(tag_string)
        parts == Split(tag_string_cleaned)
    IN  IF Len(parts) # 2 THEN TagValueError
        ELSE LET group_str == Strip(parts[1])
                 element_str == Strip(parts[2])
             IN  IF IsHex(group_str) /\ IsHex(element_str)
                 THEN TagOk(HexValue(group_str), HexValue(element_str))
                 ELSE TagValueError

(***************************************************************************)
(* The tag strings the requests use, and the tags they denote.             *)
(***************************************************************************)
STR_NAME == <<"0", "0", "1", "0", ",", "0", "0", "1", "0">>    \* "0010,0010"
STR_META == <<"0", "0", "0", "2", ",", "0", "0", "1", "0">>    \* "0002,0010"
STR_ID == <<"0", "0", "1", "0", ",", "0", "0", "2", "0">>      \* "0010,0020"
STR_ONE == <<"0", "0", "1", "0">>                               \* "0010"
STR_BAD == <<"z", "z", "z", "z", ",", "0", "0", "1", "0">>     \* "zzzz,0010"
STR_THREE == <<"0", "0", "1", "0", ",", "0", "0", "1", "0", ",", "0", "0", "1", "0">>
STR_WIDE == <<"1", "0", "0", "0", "0", ",", "0", "0", "1", "0">>  \* "10000,0010"
STR_WIDE2 == <<"0", "0", "1", "0", ",", "F", "F", "F", "F", "F">> \* "0010,FFFFF"
STR_SPACED == <<" ", "0", "0", "1", "0", " ", ",", " ", "0", "0", "1", "0", " ">>
NamedTags ==
    {STR_NAME, STR_META, STR_ID, STR_ONE, STR_BAD, STR_THREE, STR_WIDE,
     STR_WIDE2, STR_SPACED}

TagInputs ==
    NamedTags \cup UNION {[1..n -> Alphabet] : n \in 0..MaxTagLen}

T_NAME == <<16, 16>>
T_META == <<FileMetaGroup, 16>>
T_ID == <<16, 32>>

(***************************************************************************)
(* Datasets as the decoder returns them: the primary element table, the    *)
(* file-meta table and the outcome of reading pixel_array.                 *)
(***************************************************************************)
NoElement == [tag |-> <<0, 0>>, table |-> "None"]

\* Dataset.get(tag): the element stored under tag, or None
Get(table, name, tag) ==
    IF tag \in table THEN [tag |-> tag, table |-> name] ELSE NoElement

\* a plausible bug: the fallback is tried for every group
ResolveAnyGroup(ds, dicom_tag) ==
    LET element == Get(ds.primary, "dataset", dicom_tag)
    IN  IF element = NoElement
        THEN Get(ds.file_meta, "file_meta", dicom_tag)
        ELSE element

\* utils.py:122-129
Resolve(ds, dicom_tag) ==
    LET element == Get(ds.primary, "dataset", dicom_tag)
    IN  IF element = NoElement
        THEN IF dicom_tag[1] = FileMetaGroup /\ ds.file_meta # {}
             THEN Get(ds.file_meta, "file_meta", dicom_tag)
             ELSE NoElement
        ELSE element

\* the try body of dicom_upload, utils.py:119-140: what it raises, or the
\* element it put into response_data["tag_data"]
TagLookup(ds, tag) ==
    LET parsed == parse_dicom_tag(tag)
    IN  IF parsed.kind = "ValueError"
        THEN [raised |-> "ValueError", element |-> NoElement]
        ELSE LET element == Resolve(ds, <<parsed.group, parsed.element>>)
             IN  IF element # NoElement
                 THEN [raised |-> "None", element |-> element]
                 ELSE [raised |-> "HTTPException404", element |-> NoElement]

\* the except clauses of dicom_upload, utils.py:141-144: the status with
\* which the tag stage leaves dicom_upload (0: it goes on to rendering).
\* HTTPException is an Exception, so the 404 raised in the try body is
\* caught by `except Exception` and re-raised as a 500.
TagStageStatus(raised) ==
    CASE raised = "None" -> 0
      [] raised = "ValueError" -> HttpBadRequest
      [] OTHER -> HttpServerError

(***************************************************************************)
(* Pixel normalisation, utils.py:80-92.  A grid is a dtype and its         *)
(* samples; numpy arithmetic on an integer array stays in the array's      *)
(* dtype and wraps modulo 2^PixelBits.                                     *)
(***************************************************************************)
Modulus == 2 ^ PixelBits
Half == 2 ^ (PixelBits - 1)

\* a value as the dtype stores it
Wrap(dtype, x) ==
    IF dtype = "uint" THEN x % Modulus ELSE ((x + Half) % Modulus) - Half

SeqMin(samples) ==
    CHOOSE m \in {samples[i] : i \in 1..Len(samples)} :
        \A i \in 1..Len(samples) : m <= samples[i]

SeqMax(samples) ==
    CHOOSE m \in {samples[i] : i \in 1..Len(samples)} :
        \A i \in 1..Len(samples) : m >= samples[i]

Abs(x) == IF x < 0 THEN -x ELSE x

\* np.clip(d / range * 255.0, 0, 255).astype(np.uint8): a negative quotient
\* clips to 0, a positive one is cut at 255 and truncated
ScaleClip(d, range) ==
    IF d = 0 \/ (d < 0) # (range < 0) THEN 0
    ELSE LET q == (Abs(d) * ScaleMax) \div Abs(range)
         IN  IF q > ScaleMax THEN ScaleMax ELSE q

\* png_image of convert_dicom_to_png for a nonempty integer grid
Normalize(grid) ==
    LET min_val == SeqMin(grid.samples)
        max_val == SeqMax(grid.samples)
    IN  IF max_val > min_val
        THEN [i \in 1..Len(grid.samples) |->
                 ScaleClip(Wrap(grid.dtype, grid.samples[i] - min_val),
                           Wrap(grid.dtype, max_val - min_val))]
        ELSE [i \in 1..Len(grid.samples) |-> 0]

\* sample values the grids are built from, inside each dtype's range
PixelValues(dtype) ==
    IF dtype = "uint" THEN {0, 42, 50, 100, 200} ELSE {-100, 0, 42, 50, 100}

Grids ==
    UNION {{[dtype |-> t, samples |-> v] :
               v \in UNION {[1..n -> PixelValues(t)] : n \in 1..MaxGrid}} :
           t \in {"uint", "int"}}

(***************************************************************************)
(* Uploaded byte buffers and what the decoder makes of them.               *)
(***************************************************************************)
Contents == {"junk", "report", "image", "jpeg2000", "oddshape"}
NoContent == "nothing"

\* pydicom.dcmread(path, stop_before_pixels=True) succeeds, utils.py:41-48
Parses(b) == b # "junk"

NoGrid == [dtype |-> "uint", samples |-> <<>>]

\* pydicom.dcmread(file_path), main.py:93.  pixel is the outcome of reading
\* the pixel_array property: "none" raises AttributeError (no pixel data),
\* "undecodable" raises another exception (no decoder for the transfer
\* syntax), "grid" returns the array; encodable tells whether Pillow can
\* encode the normalised array.
Dataset(b) ==
    CASE b = "report" ->
           [primary |-> {T_NAME}, file_meta |-> {T_META}, pixel |-> "none",
            grid |-> NoGrid, encodable |-> FALSE]
      [] b = "image" ->
           [primary |-> {T_NAME}, file_meta |-> {T_META}, pixel |-> "grid",
            grid |-> [dtype |-> "uint", samples |-> <<0, 50, 100>>],
            encodable |-> TRUE]
      [] b = "jpeg2000" ->
           [primary |-> {T_NAME}, file_meta |-> {T_META},
            pixel |-> "undecodable", grid |-> NoGrid, encodable |-> FALSE]
      [] OTHER ->
           [primary |-> {T_NAME}, file_meta |-> {T_META}, pixel |-> "grid",
            grid |-> [dtype |-> "uint", samples |-> <<42, 42>>],
            encodable |-> FALSE]

\* a plausible bug: a digest that does not depend on the content
calculate_file_hash_const(file_content) == <<"sha256", "0">>

\* hashlib.sha256(file_content).hexdigest(), utils.py:51-54: a digest that
\* differs for different contents
calculate_file_hash(file_content) == <<"sha256", file_content>>

Requests == 1..NumRequests
NoReq == 0
Ids == 1..MaxIds
NoId == 0

EmptyMap == [d \in {} |-> NoId]
EmptyDict == [kind |-> "dict", map |-> EmptyMap]

\* dict[key] = value
Put(map, key, value) ==
    [d \in DOMAIN map \cup {key} |-> IF d = key THEN value ELSE map[d]]

\* a plausible bug: the index hit is trusted without the existence probe
ExistsAlways(file_id) == TRUE

\* file_path.exists() for get_file_path(file_id, UPLOAD_DIR), utils.py:37-38
Exists(file_id) == file_id \in DOMAIN uploads

\* a plausible bug: the rejected file is left in the uploads directory
UnlinkKeeps(file_id) == uploads

\* os.unlink(file_path), main.py:83
Unlink(file_id) == [i \in DOMAIN uploads \ {file_id} |-> uploads[i]]

\* is_valid_dicom_file(file_path), utils.py:41-48
is_valid_dicom_file(file_id) == Exists(file_id) /\ Parses(uploads[file_id])

\* module start-up, main.py:28-37: the index the process starts with;
\* kind "crash" when the load raises something other than JSONDecodeError
LoadHashMap(file) ==
    CASE file.kind = "missing" -> EmptyDict
      [] file.kind = "dict" -> [kind |-> "dict", map |-> file.map]
      [] file.kind = "garbage" -> EmptyDict
      [] file.kind = "list" -> [kind |-> "list", map |-> EmptyMap]
      [] OTHER -> [kind |-> "crash", map |-> EmptyMap]

(***************************************************************************)
(* Responses.  An exception leaving a function is a record of kind         *)
(* "raise": status is the status of a raised HTTPException, 0 for any      *)
(* other exception; cause names the failure it stands for.                 *)
(***************************************************************************)
Raise(status, cause) ==
    [kind |-> "raise", status |-> status, cause |-> cause, file_id |-> NoId,
     flagged |-> FALSE, is_duplicate |-> FALSE, tag_data |-> NoElement,
     png_error |-> "", image |-> <<>>]

\* the response_data dict returned as the JSON body, utils.py:183
JsonResponse(file_id, is_duplicate, element, png_error) ==
    [kind |-> "json", status |-> 200, cause |-> "none", file_id |-> file_id,
     flagged |-> TRUE, is_duplicate |-> is_duplicate, tag_data |-> element,
     png_error |-> png_error, image |-> <<>>]

\* the StreamingResponse, utils.py:151-177: X-DICOM-ID and the tag headers;
\* it carries no is_duplicate
PngResponse(file_id, element, image) ==
    [kind |-> "png", status |-> 200, cause |-> "none", file_id |-> file_id,
     flagged |-> FALSE, is_duplicate |-> FALSE, tag_data |-> element,
     png_error |-> "", image |-> image]

TagCause(raised) ==
    IF raised = "ValueError" THEN "InvalidTagFormat" ELSE "TagNotFound"

\* dicom_upload, utils.py:109-183
dicom_upload(file_id, tag, ds, is_duplicate) ==
    LET look == TagLookup(ds, tag)
    IN  IF look.raised # "None"
        THEN Raise(TagStageStatus(look.raised), TagCause(look.raised))
        ELSE CASE ds.pixel = "none" ->
                    \* hasattr(dicom_dataset, "pixel_array") is False
                    JsonResponse(file_id, is_duplicate, look.element,
                                 "DICOM file does not contain image data")
               [] ds.pixel = "undecodable" ->
                    \* hasattr swallows AttributeError only: the decoder's
                    \* exception leaves dicom_upload at line 147
                    Raise(0, "PixelDecode")
               [] OTHER ->
                    IF ds.encodable
                    THEN PngResponse(file_id, look.element, Normalize(ds.grid))
                    ELSE JsonResponse(file_id, is_duplicate, look.element,
                                      "Error converting to PNG")

\* `except Exception` of process_dicom, main.py:104-107: every exception,
\* an HTTPException raised inside the try block included, becomes a 500
process_dicom_except(exc) ==
    [exc EXCEPT !.kind = "error", !.status = HttpServerError]

NoResponseData == [built |-> FALSE, file_id |-> NoId, is_duplicate |-> FALSE]

NoLast ==
    [req |-> NoReq, content |-> NoContent, tag |-> <<>>,
     response |-> Raise(0, "none"),
     response_data |-> NoResponseData, first |-> FALSE, stale |-> FALSE]

NoFiles == [i \in {} |-> NoContent]

NoSnap == [uploads |-> NoFiles, index |-> EmptyDict, file |-> EmptyDict]

NoCur ==
    [file_hash |-> <<>>, existing_file_id |-> NoId, file_id |-> NoId,
     stale |-> FALSE, snap |-> NoSnap]

ReqTags == {STR_NAME, STR_META, STR_BAD, STR_ID}

(***************************************************************************)
(* The state after the module is imported with an empty uploads directory. *)
(***************************************************************************)
StoreInit ==
    /\ uploads = NoFiles
    /\ FILE_HASH_MAP = EmptyDict
    /\ hash_map_file = [kind |-> "missing", map |-> EmptyMap]
    /\ up = TRUE
    /\ nextId = 1
    /\ pc = [r \in Requests |-> "idle"]
    /\ body = [r \in Requests |-> NoContent]
    /\ cur = NoCur
    /\ loop = NoReq
    /\ last = NoLast
    /\ firstId = [b \in Contents |-> NoId]

NoCall == [fn |-> "none"]

Init == StoreInit /\ arg = NoCall /\ ret = NoCall

\* a plausible bug: the handler is resumed although another one is running
LoopFreeAlways == TRUE

\* process_dicom is a coroutine on the single event loop (main.py:45-46):
\* a handler runs from one await to the next without another one running
LoopFree == loop = NoReq

store == <<uploads, FILE_HASH_MAP, hash_map_file, up, nextId>>
pure == <<arg, ret>>

\* the request ends with response resp; rd is its response_data, tag the
\* tag string dicom_upload was given (<<>> when it was not reached)
Complete(r, tag, resp, rd) ==
    /\ pc' = [pc EXCEPT ![r] = "idle"]
    /\ body' = [body EXCEPT ![r] = NoContent]
    /\ loop' = NoReq
    /\ cur' = NoCur
    /\ last' = [req |-> r, content |-> body[r], tag |-> tag, response |-> resp,
                response_data |-> rd,
                first |-> rd.built /\ firstId[body[r]] = NoId,
                stale |-> cur.stale]
    /\ firstId' = IF rd.built /\ firstId[body[r]] = NoId
                  THEN [firstId EXCEPT ![body[r]] = rd.file_id]
                  ELSE firstId

\* file_content = await file.read(), main.py:57
Receive(r, b) ==
    /\ up /\ LoopFree
    /\ pc[r] = "idle"
    /\ pc' = [pc EXCEPT ![r] = "read"]
    /\ body' = [body EXCEPT ![r] = b]
    /\ last' = NoLast
    /\ UNCHANGED <<store, cur, loop, firstId, pure>>

\* main.py:59-67: hash, index lookup and the existence probe
Lookup(r) ==
    /\ up /\ LoopFree
    /\ pc[r] = "read"
    /\ LET file_hash == calculate_file_hash(body[r])
           hit == FILE_HASH_MAP.kind = "dict"
                  /\ file_hash \in DOMAIN FILE_HASH_MAP.map
           existing_file_id ==
               IF hit /\ Exists(FILE_HASH_MAP.map[file_hash])
               THEN FILE_HASH_MAP.map[file_hash] ELSE NoId
       IN  /\ existing_file_id # NoId \/ nextId <= MaxIds
           /\ cur' = [file_hash |-> file_hash,
                      existing_file_id |-> existing_file_id,
                      file_id |-> existing_file_id,
                      stale |-> hit /\ existing_file_id = NoId,
                      snap |-> [uploads |-> uploads, index |-> FILE_HASH_MAP,
                                file |-> hash_map_file]]
           /\ pc' = [pc EXCEPT ![r] =
                        IF existing_file_id # NoId THEN "hit" ELSE "miss"]
    /\ loop' = r
    /\ last' = NoLast
    /\ UNCHANGED <<store, body, firstId, pure>>

\* main.py:74-79: a fresh identifier, the bytes written under it
Store(r) ==
    /\ loop = r /\ pc[r] = "miss"
    /\ cur' = [cur EXCEPT !.file_id = nextId]
    /\ nextId' = nextId + 1
    /\ uploads' = [i \in DOMAIN uploads \cup {nextId} |->
                      IF i = nextId THEN body[r] ELSE uploads[i]]
    /\ pc' = [pc EXCEPT ![r] = "stored"]
    /\ last' = NoLast
    /\ UNCHANGED <<FILE_HASH_MAP, hash_map_file, up, body, loop, firstId, pure>>

\* main.py:82-87: validation; on failure the file is unlinked and the 400
\* raised here is caught by the handler's own `except Exception`
Validate(r) ==
    /\ loop = r /\ pc[r] = "stored"
    /\ IF is_valid_dicom_file(cur.file_id)
       THEN /\ pc' = [pc EXCEPT ![r] = "valid"]
            /\ last' = NoLast
            /\ UNCHANGED <<store, body, cur, loop, firstId>>
       ELSE /\ uploads' = Unlink(cur.file_id)
            /\ Complete(r, <<>>,
                        process_dicom_except(
                            Raise(HttpBadRequest, "InvalidFormat")),
                        NoResponseData)
            /\ UNCHANGED <<FILE_HASH_MAP, hash_map_file, up, nextId>>
    /\ UNCHANGED pure

\* main.py:89-91: record the mapping and dump the whole mapping; the item
\* assignment raises TypeError when the loaded JSON was not an object
Record(r) ==
    /\ loop = r /\ pc[r] = "valid"
    /\ IF FILE_HASH_MAP.kind = "dict"
       THEN /\ FILE_HASH_MAP' =
                   [FILE_HASH_MAP EXCEPT
                       !.map = Put(@, cur.file_hash, cur.file_id)]
            /\ hash_map_file' = [kind |-> "dict", map |-> FILE_HASH_MAP'.map]
            /\ pc' = [pc EXCEPT ![r] = "recorded"]
            /\ last' = NoLast
            /\ UNCHANGED <<uploads, up, nextId, body, cur, loop, firstId>>
       ELSE /\ Complete(r, <<>>, process_dicom_except(Raise(0, "TypeError")),
                        NoResponseData)
            /\ UNCHANGED store
    /\ UNCHANGED pure

\* main.py:93-102: parse the stored file, build response_data and hand
\* over to dicom_upload; the tag query parameter is first read there
Respond(r, tag) ==
    /\ loop = r /\ pc[r] \in {"hit", "recorded"}
    /\ LET is_duplicate == cur.existing_file_id # NoId
           dicom_dataset == Dataset(uploads[cur.file_id])
           out == dicom_upload(cur.file_id, tag, dicom_dataset, is_duplicate)
       IN  Complete(r, tag,
                    IF out.kind = "raise" THEN process_dicom_except(out)
                    ELSE out,
                    [built |-> TRUE, file_id |-> cur.file_id,
                     is_duplicate |-> is_duplicate])
    /\ UNCHANGED <<store, pure>>

(***************************************************************************)
(* The environment: a stored file is removed, the durable copy is lost or  *)
(* damaged, the service is restarted.  It acts between handler runs.       *)
(***************************************************************************)
RemoveFile(i) ==
    /\ LoopFree
    /\ i \in DOMAIN uploads
    /\ uploads' = Unlink(i)
    /\ last' = NoLast
    /\ UNCHANGED <<FILE_HASH_MAP, hash_map_file, up, nextId, pc, body, cur,
                   loop, firstId, pure>>

DamageKinds == {"missing", "garbage", "list", "not_text"}

DamageIndex(k) ==
    /\ LoopFree
    /\ hash_map_file.kind # k
    /\ hash_map_file' = [kind |-> k, map |-> EmptyMap]
    /\ last' = NoLast
    /\ UNCHANGED <<uploads, FILE_HASH_MAP, up, nextId, pc, body, cur, loop,
                   firstId, pure>>

\* the module is imported again, main.py:26-37
Restart ==
    /\ LoopFree
    /\ LET loaded == LoadHashMap(hash_map_file)
       IN  /\ up' = (loaded.kind # "crash")
           /\ FILE_HASH_MAP' = IF loaded.kind = "crash" THEN EmptyDict ELSE loaded
    /\ pc' = [r \in Requests |-> "idle"]
    /\ body' = [r \in Requests |-> NoContent]
    /\ last' = NoLast
    /\ UNCHANGED <<uploads, hash_map_file, nextId, cur, loop, firstId, pure>>

Upload ==
    \/ \E r \in Requests, b \in Contents : Receive(r, b)
    \/ \E r \in Requests : Lookup(r)
    \/ \E r \in Requests : Store(r)
    \/ \E r \in Requests : Validate(r)
    \/ \E r \in Requests : Record(r)
    \/ \E r \in Requests, tag \in ReqTags : Respond(r, tag)

Next ==
    \/ Upload
    \/ \E i \in Ids : RemoveFile(i)
    \/ \E k \in DamageKinds : DamageIndex(k)
    \/ Restart

Spec == Init /\ [][Next]_vars

\* uploads only: no file is removed, the index is not damaged
SpecUploads == Init /\ [][Upload]_vars

NextFiles ==
    \/ Upload
    \/ \E i \in Ids : RemoveFile(i)

\* uploads while stored files may be removed from the uploads directory
SpecFiles == Init /\ [][NextFiles]_vars

(***************************************************************************)
(* Specifications that call one pure function on every input of a bounded  *)
(* set.                                                                    *)
(***************************************************************************)
CallParse ==
    /\ arg.fn = "parse_dicom_tag" /\ ret = NoCall
    /\ ret' = [fn |-> "parse_dicom_tag", value |-> parse_dicom_tag(arg.tag)]
    /\ UNCHANGED <<store, pc, body, cur, loop, last, firstId, arg>>

InitTag ==
    /\ StoreInit
    /\ arg \in {[fn |-> "parse_dicom_tag", tag |-> t] : t \in TagInputs}
    /\ ret = NoCall

SpecTag == InitTag /\ [][CallParse]_vars

TagTables == SUBSET {T_NAME, T_META, T_ID}

CallTagLookup ==
    /\ arg.fn = "TagLookup" /\ ret = NoCall
    /\ ret' = [fn |-> "TagLookup", value |-> TagLookup(arg.ds, arg.tag)]
    /\ UNCHANGED <<store, pc, body, cur, loop, last, firstId, arg>>

InitResolve ==
    /\ StoreInit
    /\ arg \in {[fn |-> "TagLookup", tag |-> t,
                 ds |-> [primary |-> p, file_meta |-> m]] :
                    t \in {STR_NAME, STR_META, STR_ID, STR_BAD},
                    p \in TagTables, m \in TagTables}
    /\ ret = NoCall

SpecResolve == InitResolve /\ [][CallTagLookup]_vars

CallNormalize ==
    /\ arg.fn = "Normalize" /\ ret = NoCall
    /\ ret' = [fn |-> "Normalize", value |-> Normalize(arg.grid)]
    /\ UNCHANGED <<store, pc, body, cur, loop, last, firstId, arg>>

InitPixel ==
    /\ StoreInit
    /\ arg \in {[fn |-> "Normalize", grid |-> g] : g \in Grids}
    /\ ret = NoCall

SpecPixel == InitPixel /\ [][CallNormalize]_vars

(***************************************************************************)
(* Properties.                                                             *)
(***************************************************************************)

\* the tag a well-formed tag string of the requests stands for
TagOf(t) ==
    CASE t = STR_NAME -> T_NAME
      [] t = STR_META -> T_META
      [] OTHER -> T_ID

Found(tag, name) == [raised |-> "None", element |-> [tag |-> tag, table |-> name]]
NotFound == [raised |-> "HTTPException404", element |-> NoElement]

\* C7: the tag is looked up in the primary table first; only when it is
\* absent there and its group is 0x0002 is the file-meta table consulted.
\* A group-0x0002 tag present only in the file-meta table resolves to that
\* element; a tag absent from both, or a tag of another group absent from
\* the primary table (whatever the file-meta table holds), raises the 404
\* of "tag not found".
C7_TagResolution ==
    (ret.fn = "TagLookup" /\ arg.tag # STR_BAD) =>
        LET t == TagOf(arg.tag)
            p == arg.ds.primary
            m == arg.ds.file_meta
        IN  /\ t \in p => ret.value = Found(t, "dataset")
            /\ (t \notin p /\ t[1] = 2 /\ t \in m) =>
                   ret.value = Found(t, "file_meta")
            /\ (t \notin p /\ t[1] = 2 /\ t \notin m) => ret.value = NotFound
            /\ (t \notin p /\ t[1] # 2) => ret.value = NotFound

\* C7 witness: a group-0x0002 tag absent from the primary table was
\* resolved from the file-meta table
C7_Witness_Fallback ==
    /\ ret.fn = "TagLookup"
    /\ arg.tag = STR_META
    /\ T_META \notin arg.ds.primary
    /\ ret.value.element.table = "file_meta"

\* the split the claim describes: exactly one comma, two components
CommaCount(s) == Cardinality({i \in 1..Len(s) : s[i] = ","})

ClaimedParse(s) ==
    LET t == Strip(s)
    IN  IF CommaCount(t) # 1 THEN TagValueError
        ELSE LET k == CHOOSE i \in 1..Len(t) : t[i] = ","
                 g == Strip(SubSeq(t, 1, k - 1))
                 e == Strip(SubSeq(t, k + 1, Len(t)))
             IN  IF IsHex(g) /\ IsHex(e)
                    /\ HexValue(g) <= 65535 /\ HexValue(e) <= 65535
                 THEN TagOk(HexValue(g), HexValue(e))
                 ELSE TagValueError

\* C8: parse_dicom_tag accepts a string exactly when, trimmed, it has one
\* comma splitting it into two nonempty hexadecimal components that fit in
\* 16 bits, and then returns their base-16 values; every other input fails
\* with the ValueError that becomes InvalidTagFormat.
C8_ParseTag ==
    ret.fn = "parse_dicom_tag" => ret.value = ClaimedParse(arg.tag)

\* the quotient (s - lo) * 255 / (hi - lo), truncated and rounded
Truncated(s, lo, hi) == ((s - lo) * 255) \div (hi - lo)
Rounded(s, lo, hi) == (2 * (s - lo) * 255 + (hi - lo)) \div (2 * (hi - lo))

\* C9: the normaliser returns an 8-bit grid of the same shape; when
\* max > min each sample s becomes (s - min) * 255 / (max - min), truncated
\* or rounded, so that the minimum maps to 0, the maximum to 255 and order
\* is preserved; when max <= min the output is all zeros.
C9_Normalizer ==
    ret.fn = "Normalize" =>
        LET in == arg.grid.samples
            out == ret.value
            lo == SeqMin(in)
            hi == SeqMax(in)
        IN  /\ Len(out) = Len(in)
            /\ \A i \in 1..Len(out) : out[i] \in 0..255
            /\ hi > lo =>
                 /\ \A i \in 1..Len(in) :
                        out[i] \in {Truncated(in[i], lo, hi),
                                    Rounded(in[i], lo, hi)}
                 /\ \A i, j \in 1..Len(in) : in[i] < in[j] => out[i] <= out[j]
            /\ hi <= lo => \A i \in 1..Len(out) : out[i] = 0

Sent == last.response.kind \in {"json", "png"}

\* C1: for a content that passes validation, the upload that is its first
\* gets is_duplicate = FALSE in its response data and every later one gets
\* the identifier of the first with is_duplicate = TRUE; the response that
\* is sent carries that identifier (and that flag, when it carries one);
\* two different contents never get the same identifier.
C1_Dedup ==
    /\ \A b1, b2 \in Contents :
           (b1 # b2 /\ firstId[b1] # NoId) => firstId[b1] # firstId[b2]
    /\ last.response_data.built =>
           /\ Parses(last.content)
           /\ last.response_data.file_id = firstId[last.content]
           /\ last.response_data.is_duplicate = ~last.first
    /\ Sent =>
           /\ last.response.file_id = firstId[last.content]
           /\ last.response.flagged =>
                  last.response.is_duplicate = ~last.first

\* C1 witness: a later upload of a content is answered as a duplicate
\* after another content was uploaded as well
C1_Witness_Duplicate ==
    /\ last.response.kind = "json"
    /\ last.response.is_duplicate
    /\ last.response.file_id = firstId[last.content]
    /\ \E b \in Contents : b # last.content /\ firstId[b] # NoId

InHandler(r) == pc[r] \in {"hit", "miss", "stored", "valid", "recorded"}

\* C10 as stated: lookup, write and record are not atomic across requests,
\* so that once one upload has missed the lookup and not yet stored or
\* recorded, a second upload of the same valid content that has been
\* received can run its own lookup (and miss as well).
C10_NotAtomic ==
    \A r1, r2 \in Requests :
        (/\ r1 # r2
         /\ pc[r1] = "miss" /\ pc[r2] = "read"
         /\ body[r1] = body[r2] /\ Parses(body[r1])
         /\ nextId < MaxIds)
        => ENABLED Lookup(r2)

\* C10 amended: the handler runs from its lookup to its response without
\* another handler running, so uploads of identical content are
\* serialised: no content is ever stored twice, and every index entry
\* names a stored file holding exactly the bytes of its digest.
C10_Serialized ==
    /\ \A r1, r2 \in Requests : (InHandler(r1) /\ InHandler(r2)) => r1 = r2
    /\ \A i, j \in DOMAIN uploads : uploads[i] = uploads[j] => i = j
    /\ \A h \in DOMAIN FILE_HASH_MAP.map :
           /\ FILE_HASH_MAP.map[h] \in DOMAIN uploads
           /\ calculate_file_hash(uploads[FILE_HASH_MAP.map[h]]) = h

\* C10 witness: two uploads of the same valid content are in flight, one
\* has stored and recorded it, the other is still to run its lookup
C10_Witness_Simultaneous ==
    \E r1, r2 \in Requests :
        /\ r1 # r2
        /\ pc[r1] = "recorded" /\ pc[r2] = "read"
        /\ body[r1] = body[r2]
        /\ cur.existing_file_id = NoId

\* C3: when an upload treated as new fails format validation, the step
\* that rejects it leaves the stored files, the in-memory index and the
\* durable index exactly as they were when the request's handler started.
C3_RejectedUploadLeavesNoTrace ==
    [][\A r \in Requests :
          (pc[r] = "stored" /\ ~Parses(body[r]) /\ pc'[r] # pc[r]) =>
              /\ pc'[r] = "idle"
              /\ last'.response.cause = "InvalidFormat"
              /\ uploads' = cur.snap.uploads
              /\ FILE_HASH_MAP' = cur.snap.index
              /\ hash_map_file' = cur.snap.file]_vars

\* C3 witness: an upload was rejected as invalid while files and index
\* entries existed
C3_Witness_Rejected ==
    /\ last.response.cause = "InvalidFormat"
    /\ DOMAIN uploads # {}
    /\ DOMAIN FILE_HASH_MAP.map # {}

Digest(r) == calculate_file_hash(body[r])

\* C4: a lookup hit is reused only when the file it names is present in
\* storage; when it is not, the upload is handled as new: a fresh
\* identifier, the bytes stored and validated, the index entry of the
\* digest (in memory and on disk) overwritten with the fresh identifier,
\* and is_duplicate = FALSE in the response.
C4_StaleEntryHandledAsNew ==
    [][\A r \in Requests :
          /\ (pc[r] = "read" /\ pc'[r] = "hit") =>
                 /\ Digest(r) \in DOMAIN FILE_HASH_MAP.map
                 /\ FILE_HASH_MAP.map[Digest(r)] \in DOMAIN uploads
          /\ (/\ pc[r] = "read" /\ pc'[r] \in {"hit", "miss"}
              /\ Digest(r) \in DOMAIN FILE_HASH_MAP.map
              /\ FILE_HASH_MAP.map[Digest(r)] \notin DOMAIN uploads) =>
                 pc'[r] = "miss" /\ cur'.stale
          /\ (loop = r /\ cur.stale /\ pc'[r] # pc[r]) =>
                 /\ pc[r] = "miss" => pc'[r] = "stored"
                 /\ pc[r] = "stored" => pc'[r] = "valid"
                 /\ pc[r] = "valid" => pc'[r] = "recorded"
                 /\ pc[r] = "recorded" =>
                        /\ pc'[r] = "idle"
                        /\ cur.file_id \notin DOMAIN cur.snap.uploads
                        /\ cur.file_id # cur.snap.index.map[Digest(r)]
                        /\ cur.file_id \in DOMAIN uploads'
                        /\ uploads'[cur.file_id] = body[r]
                        /\ FILE_HASH_MAP'.map[Digest(r)] = cur.file_id
                        /\ hash_map_file' =
                               [kind |-> "dict", map |-> FILE_HASH_MAP'.map]
                        /\ last'.response_data.built
                        /\ last'.response_data.file_id = cur.file_id
                        /\ ~last'.response_data.is_duplicate
                        /\ last'.response.kind = "json" =>
                               /\ last'.response.file_id = cur.file_id
                               /\ ~last'.response.is_duplicate]_vars

\* C4 witness: an upload whose index entry named a removed file was
\* answered as a new upload
C4_Witness_Stale ==
    /\ last.stale
    /\ last.response.kind = "json"
    /\ ~last.response.is_duplicate
    /\ FILE_HASH_MAP.map[calculate_file_hash(last.content)] = last.response.file_id

\* C2: a request that fails because the bytes are no valid file, because
\* the tag string is malformed or because the well-formed tag is absent
\* ends with the client-facing 4xx outcome of its kind (400, 400, 404),
\* never with the server fault.
C2_ClientErrors ==
    last.response.kind = "error" =>
        /\ last.response.cause = "InvalidFormat" =>
               last.response.status = HttpBadRequest
        /\ last.response.cause = "InvalidTagFormat" =>
               last.response.status = HttpBadRequest
        /\ last.response.cause = "TagNotFound" =>
               last.response.status = HttpNotFound

\* the tag of the request resolves in the dataset of its content
Resolves ==
    /\ last.response_data.built
    /\ TagLookup(Dataset(last.content), last.tag).raised = "None"

Renders ==
    Dataset(last.content).pixel = "grid" /\ Dataset(last.content).encodable

\* C5: for a request whose tag resolves, when the dataset has no pixel
\* grid or rendering raises, the request still succeeds with the non-image
\* response carrying file_id, the resolved tag_data and a populated
\* png_error, and no image bytes; an image response is sent only when
\* rendering succeeded.
C5_RenderingFailureIsNotUploadFailure ==
    /\ (Resolves /\ ~Renders) =>
           /\ last.response.kind = "json"
           /\ last.response.file_id = last.response_data.file_id
           /\ last.response.tag_data =
                  TagLookup(Dataset(last.content), last.tag).element
           /\ last.response.png_error # ""
           /\ last.response.image = <<>>
    /\ last.response.kind = "png" => (Resolves /\ Renders)

\* C6: after every successful record the durable copy equals the whole
\* in-memory mapping; a restart reloads exactly that mapping; a restart
\* that finds the durable copy missing, unreadable or not a mapping starts
\* with an empty index and keeps serving.
C6_IndexSurvivesRestarts ==
    [][/\ \A r \in Requests :
              (pc[r] = "valid" /\ pc'[r] = "recorded") =>
                  hash_map_file' = [kind |-> "dict", map |-> FILE_HASH_MAP'.map]
       /\ Restart =>
              /\ up'
              /\ FILE_HASH_MAP' =
                     IF hash_map_file.kind = "dict"
                     THEN [kind |-> "dict", map |-> hash_map_file.map]
                     ELSE EmptyDict]_vars

====
